---------------------------- MODULE Spec2Model ----------------------------
(***************************************************************************)
(* A model of the rayhunter client library: the unit converter and the     *)
(* stats models (system_stats.py), the manifest models (manifest.py) and   *)
(* the HTTP client (api.py) talking to a rayhunter device.                 *)
(*                                                                         *)
(* Python values are tagged records:                                       *)
(*   [t |-> "str",  s |-> <<"1", ".", "5", "M">>]   a str, one char each   *)
(*   [t |-> "int",  n |-> 5]                         an int                *)
(*   [t |-> "None"]                                  None                  *)
(*   [t |-> "dict", d |-> [key |-> value]]           a dict                *)
(*   [t |-> "list", items |-> <<...>>]               a list                *)
(*   [t |-> "obj",  cls |-> "DiskStats", f |-> ...]  a dataclass instance  *)
(* A call's outcome is [kind |-> "ok", value |-> v] or a record whose kind *)
(* is the name of the exception raised.                                    *)
(***************************************************************************)
EXTENDS Integers, Sequences, FiniteSets, TLC

VARIABLES
    size,            \* the argument of _size_str_to_int (a sequence of characters)
    size_out,        \* the outcome of that call, NotCalled before it
    caller_stats,    \* the caller's mapping {"disk_stats": {...}, "memory_stats": {...}}
    caller_manifest,   \* the caller's mapping {"entries": [...], "current_entry": ...}
    calls,           \* the from_dict calls made on the two mappings, in order
    device_entries,  \* the device's finalized recordings, oldest first
    device_current,  \* the device's active recording, 0 when there is none
    transport,       \* the transport: healthy, or mocked to answer one status
    pc,              \* the client: "idle", or "waiting" for a reply
    call,            \* the method the client is in, with its argument
    reply,        \* the reply on its way to the client
    result,          \* the last call that ended: its method, reply and outcome
    n_requests,      \* the HTTP requests the client has issued
    last_request,    \* the last of them
    last_command     \* the last of start_recording, stop_recording that succeeded

sizeVars == <<size, size_out>>
modelVars == <<caller_stats, caller_manifest, calls>>
deviceVars == <<device_entries, device_current>>
clientVars == <<transport, pc, call, reply, result, n_requests, last_request,
                last_command>>
vars == <<sizeVars, modelVars, deviceVars, clientVars>>

-----------------------------------------------------------------------------
(* Bounds of the model *)

MaxSizeLen == 5      \* the longest size string tried
MaxDigitRun == 2     \* the most digits in a row in a size string tried
MaxPercentLen == 3   \* the longest percent string tried
MaxEntries == 2      \* the most entries in a manifest mapping tried
MaxCalls == 2        \* the most from_dict calls on the caller's mappings
MaxRequests == 3     \* the most requests the client issues
MaxRecordings == 2   \* the most recordings the device has had
MaxFiles == 1        \* the capture names the client asks files of: 1..MaxFiles

-----------------------------------------------------------------------------
(* Python values *)

PyStr(s) == [t |-> "str", s |-> s]
PyInt(n) == [t |-> "int", n |-> n]
PyNone == [t |-> "None"]
PyDict(d) == [t |-> "dict", d |-> d]
PyList(items) == [t |-> "list", items |-> items]
PyObj(cls, f) == [t |-> "obj", cls |-> cls, f |-> f]

NotCalled == [kind |-> "not called"]
Ok(v) == [kind |-> "ok", value |-> v]
Raise(exc) == [kind |-> exc]

Digits == {"0", "1", "2", "3", "4", "5", "6", "7", "8", "9"}

DigitVal(c) ==
    CASE c = "0" -> 0 [] c = "1" -> 1 [] c = "2" -> 2 [] c = "3" -> 3
      [] c = "4" -> 4 [] c = "5" -> 5 [] c = "6" -> 6 [] c = "7" -> 7
      [] c = "8" -> 8 [] c = "9" -> 9

RECURSIVE Pow10(_)
Pow10(k) == IF k = 0 THEN 1 ELSE 10 * Pow10(k - 1)

\* The value of a string of decimal digits, most significant first.
RECURSIVE DecValue(_)
DecValue(s) ==
    IF s = <<>> THEN 0
    ELSE 10 * DecValue(SubSeq(s, 1, Len(s) - 1)) + DigitVal(s[Len(s)])

AllDigits(s) == \A i \in 1..Len(s) : s[i] \in Digits

\* str.rstrip(chars) for a one-character argument: every trailing c goes.
RECURSIVE rstrip(_, _)
rstrip(s, c) ==
    IF s # <<>> /\ s[Len(s)] = c THEN rstrip(SubSeq(s, 1, Len(s) - 1), c) ELSE s

\* The strings (over the model's characters) that float() parses: digits with
\* at most one point and at least one digit.
DotPositions(s) == {i \in 1..Len(s) : s[i] = "."}
FloatParses(s) ==
    /\ \A i \in 1..Len(s) : s[i] \in Digits \cup {"."}
    /\ Cardinality(DotPositions(s)) <= 1
    /\ \E i \in 1..Len(s) : s[i] \in Digits

\* float(s), exactly: the number whole + num / den that the digits denote.
FloatOf(s) ==
    IF DotPositions(s) = {} THEN [whole |-> DecValue(s), num |-> 0, den |-> 1]
    ELSE LET p == CHOOSE i \in DotPositions(s) : TRUE
             frac == SubSeq(s, p + 1, Len(s))
         IN  [whole |-> DecValue(SubSeq(s, 1, p - 1)),
              num |-> DecValue(frac),
              den |-> Pow10(Len(frac))]

\* The strings int() parses: a non-empty string of digits.
IntParses(s) == s # <<>> /\ AllDigits(s)

-----------------------------------------------------------------------------
(* system_stats.py: the unit converter *)

BytesPerMegabyte == 1048576

\* round(x * k) in place of int(x * k).
RoundOfProduct(x, k) == x.whole * k + (2 * x.num * k + x.den) \div (2 * x.den)

\* int(x * k) for a float x >= 0: the product with its fraction cut off. The
\* whole part and the fraction are multiplied apart (the sum is the same
\* number), which keeps every intermediate value a 32-bit integer.
IntOfProduct(x, k) == x.whole * k + (x.num * k) \div x.den

\* _size_str_to_int(size). size[-1] of an int raises TypeError and of "" raises
\* IndexError; float() of what rstrip leaves raises its own ValueError, which
\* names no suffix.
size_str_to_int(v) ==
    IF v.t # "str" THEN Raise("TypeError")
    ELSE IF v.s = <<>> THEN Raise("IndexError")
    ELSE IF v.s[Len(v.s)] # "M"
         THEN [kind |-> "ValueError", suffix |-> v.s[Len(v.s)], original |-> v.s]
    ELSE LET body == rstrip(v.s, "M") IN
         IF ~FloatParses(body)
         THEN [kind |-> "ValueError", suffix |-> "", original |-> body]
         ELSE Ok(PyInt(IntOfProduct(FloatOf(body), BytesPerMegabyte)))

-----------------------------------------------------------------------------
(* system_stats.py: the stats models *)

\* A from_dict leaves the mapping it was given as `dict` and ends as `out`.
Left(d, out) == [dict |-> d, out |-> out]

\* cls(**d) for a dataclass with the given fields: every field, nothing else.
Construct(cls, fields, d) ==
    IF DOMAIN d = fields THEN Ok(PyObj(cls, d)) ELSE Raise("TypeError")

\* for key in keys: d[key] = _size_str_to_int(d[key])
RECURSIVE ConvertSizeKeys(_, _)
ConvertSizeKeys(d, keys) ==
    IF keys = <<>> THEN Left(d, Ok(PyNone))
    ELSE IF Head(keys) \notin DOMAIN d THEN Left(d, Raise("KeyError"))
    ELSE LET r == size_str_to_int(d[Head(keys)]) IN
         IF r.kind # "ok" THEN Left(d, r)
         ELSE ConvertSizeKeys([d EXCEPT ![Head(keys)] = r.value], Tail(keys))

\* int(value.lstrip("%")): the wrong end stripped.
PercentToInt_lstrip(v) ==
    IF v.t # "str" THEN Raise("AttributeError")
    ELSE IF v.s # <<>> /\ AllDigits(v.s) THEN Ok(PyInt(DecValue(v.s)))
    ELSE Raise("ValueError")

\* int(value.rstrip("%")); an int has no rstrip.
PercentToInt(v) ==
    IF v.t # "str" THEN Raise("AttributeError")
    ELSE LET body == rstrip(v.s, "%") IN
         IF IntParses(body) THEN Ok(PyInt(DecValue(body)))
         ELSE Raise("ValueError")

DiskStatsFields ==
    {"partition", "total_size", "used_size", "available_size", "used_percent",
     "mounted_on"}

DiskStats_from_dict(disk_stats) ==
    LET sized == ConvertSizeKeys(disk_stats,
                                 <<"total_size", "used_size", "available_size">>)
    IN  IF sized.out.kind # "ok" THEN sized
        ELSE IF "used_percent" \notin DOMAIN sized.dict
             THEN Left(sized.dict, Raise("KeyError"))
        ELSE LET pct == PercentToInt(sized.dict["used_percent"]) IN
             IF pct.kind # "ok" THEN Left(sized.dict, pct)
             ELSE LET d == [sized.dict EXCEPT !["used_percent"] = pct.value] IN
                  Left(d, Construct("DiskStats", DiskStatsFields, d))

MemoryStatsFields == {"total", "used", "free"}

MemoryStats_from_dict(memory_stats) ==
    LET sized == ConvertSizeKeys(memory_stats, <<"total", "used", "free">>) IN
    IF sized.out.kind # "ok" THEN sized
    ELSE Left(sized.dict, Construct("MemoryStats", MemoryStatsFields, sized.dict))

\* The nested mappings are converted in place, the disk's first; the outer
\* mapping keeps them.
SystemStats_from_dict(system_stats) ==
    IF "disk_stats" \notin DOMAIN system_stats
    THEN Left(system_stats, Raise("KeyError"))
    ELSE LET disk == DiskStats_from_dict(system_stats["disk_stats"].d)
             m1 == [system_stats EXCEPT !["disk_stats"] = PyDict(disk.dict)]
         IN  IF disk.out.kind # "ok" THEN Left(m1, disk.out)
             ELSE IF "memory_stats" \notin DOMAIN m1 THEN Left(m1, Raise("KeyError"))
             ELSE LET memory == MemoryStats_from_dict(m1["memory_stats"].d)
                      m2 == [m1 EXCEPT !["memory_stats"] = PyDict(memory.dict)]
                  IN  IF memory.out.kind # "ok" THEN Left(m2, memory.out)
                      ELSE Left(m2, Ok(PyObj("SystemStats",
                                    [disk_stats |-> disk.out.value,
                                     memory_stats |-> memory.out.value])))

-----------------------------------------------------------------------------
(* manifest.py: the manifest models *)

QmdlManifestEntryFields ==
    {"name", "start_time", "last_message_time", "qmdl_size_bytes",
     "analysis_size_bytes"}

\* The two sizes handed to the constructor in each other's place.
QmdlManifestEntry_swapped(x) ==
    IF x.t # "dict" \/ DOMAIN x.d # QmdlManifestEntryFields THEN Raise("TypeError")
    ELSE Ok(PyObj("QmdlManifestEntry",
                  [x.d EXCEPT !["qmdl_size_bytes"] = x.d["analysis_size_bytes"],
                              !["analysis_size_bytes"] = x.d["qmdl_size_bytes"]]))

\* QmdlManifestEntry(**x): x must be a mapping of exactly the five fields.
QmdlManifestEntry(x) ==
    IF x.t # "dict" THEN Raise("TypeError")
    ELSE Construct("QmdlManifestEntry", QmdlManifestEntryFields, x.d)

\* [QmdlManifestEntry(**x) for x in entries]: the list, or the first error.
RECURSIVE ConvertEntries(_)
ConvertEntries(items) ==
    IF items = <<>> THEN Ok(<<>>)
    ELSE LET first == QmdlManifestEntry(Head(items)) IN
         IF first.kind # "ok" THEN first
         ELSE LET rest == ConvertEntries(Tail(items)) IN
              IF rest.kind # "ok" THEN rest
              ELSE Ok(<<first.value>> \o rest.value)

\* current_entry built from the last element of entries (the comprehension's x)
\* instead of from the mapping's own "current_entry".
ConvertCurrentEntry_fromLast(m) ==
    IF m["entries"].items = <<>> THEN QmdlManifestEntry(m["current_entry"])
    ELSE Ok(m["entries"].items[Len(m["entries"].items)])

\* QmdlManifestEntry(**qmdl_manifest["current_entry"])
ConvertCurrentEntry(m) == QmdlManifestEntry(m["current_entry"])

QmdlManifestFields == {"entries", "current_entry"}

QmdlManifest_from_dict(qmdl_manifest) ==
    IF "entries" \notin DOMAIN qmdl_manifest
    THEN Left(qmdl_manifest, Raise("KeyError"))
    ELSE IF qmdl_manifest["entries"].t # "list"
    THEN Left(qmdl_manifest, Raise("TypeError"))
    ELSE LET entries == ConvertEntries(qmdl_manifest["entries"].items) IN
         IF entries.kind # "ok" THEN Left(qmdl_manifest, entries)
         ELSE LET m1 == [qmdl_manifest EXCEPT !["entries"] = PyList(entries.value)]
              IN  IF "current_entry" \notin DOMAIN m1
                  THEN Left(m1, Raise("KeyError"))
                  ELSE IF m1["current_entry"] = PyNone
                  THEN Left(m1, Construct("QmdlManifest", QmdlManifestFields, m1))
                  ELSE LET current == ConvertCurrentEntry(m1) IN
                       IF current.kind # "ok" THEN Left(m1, current)
                       ELSE LET m2 == [m1 EXCEPT !["current_entry"] = current.value]
                            IN  Left(m2, Construct("QmdlManifest",
                                                   QmdlManifestFields, m2))

-----------------------------------------------------------------------------
(* The device behind the API: what it serves, after the endpoints' docstrings *)

NameChars == <<"1", "2", "3", "4", "5", "6", "7", "8", "9">>

\* The manifest entry the device reports for its recording number id.
EntryJson(id) ==
    PyDict([name |-> PyStr(<<NameChars[id]>>),
            start_time |-> PyStr(<<"t", NameChars[id]>>),
            last_message_time |-> PyStr(<<"u", NameChars[id]>>),
            qmdl_size_bytes |-> PyInt(100 * id),
            analysis_size_bytes |-> PyInt(id)])

\* The body of GET /api/qmdl-manifest: {entries: [entry...], current_entry: entry|null}
ManifestJson(entries, current) ==
    PyDict([entries |-> PyList([i \in 1..Len(entries) |-> EntryJson(entries[i])]),
            current_entry |-> IF current = 0 THEN PyNone ELSE EntryJson(current)])

\* The body of GET /api/system-stats, with the values of the docstrings.
SystemStatsJson ==
    PyDict([disk_stats |-> PyDict(
                [partition |-> PyStr(<<"u", "b", "i", "0">>),
                 total_size |-> PyStr(<<"2", "1", "4", ".", "7", "M">>),
                 used_size |-> PyStr(<<"1", "7", ".", "5", "M">>),
                 available_size |-> PyStr(<<"1", "9", "7", ".", "2", "M">>),
                 used_percent |-> PyStr(<<"8", "%">>),
                 mounted_on |-> PyStr(<<"/", "d", "a", "t", "a">>)]),
            memory_stats |-> PyDict(
                [total |-> PyStr(<<"1", "5", "9", ".", "9", "M">>),
                 used |-> PyStr(<<"1", "4", "2", ".", "3", "M">>),
                 free |-> PyStr(<<"1", "7", ".", "6", "M">>)])])

NoBody == [t |-> "empty"]
FileBody(kind, name) == [t |-> "file", kind |-> kind, name |-> name]

Recordings(entries, current) ==
    {entries[i] : i \in 1..Len(entries)} \cup (IF current = 0 THEN {} ELSE {current})

\* The recording the device starts next: one it has not had yet.
NextRecording(entries, current) == Cardinality(Recordings(entries, current)) + 1

\* The device with its active recording, if any, finalized into the entries.
Finalized(entries, current) ==
    IF current = 0 THEN entries ELSE Append(entries, current)

\* The device's answer to a request, and the state it is left in. `active` is
\* whether a recording was active when the request arrived.
Served(status, body, entries, current, was) ==
    [status |-> status, body |-> body, entries |-> entries, current |-> current,
     active |-> was # 0]

Serve(req, entries, current) ==
    CASE req.path = "/api/qmdl-manifest" ->
           Served(200, ManifestJson(entries, current), entries, current, current)
      [] req.path = "/api/system-stats" ->
           Served(200, SystemStatsJson, entries, current, current)
      [] req.path \in {"/api/qmdl/", "/api/pcap/", "/api/analysis-report/"} ->
           IF req.name \in Recordings(entries, current)
           THEN Served(200, FileBody(req.path, req.name), entries, current, current)
           ELSE Served(404, NoBody, entries, current, current)
      [] req.path = "/api/start-recording" ->
           Served(200, NoBody, Finalized(entries, current),
                  NextRecording(entries, current), current)
      [] req.path = "/api/stop-recording" ->
           IF current = 0 THEN Served(500, NoBody, entries, current, current)
           ELSE Served(200, NoBody, Finalized(entries, current), 0, current)

-----------------------------------------------------------------------------
(* api.py: the client *)

PyBool(b) == [t |-> "bool", b |-> b]

\* Response.raise_for_status() raises for the 4xx and 5xx statuses only.
raise_for_status_5xx_only(status) == 500 <= status /\ status < 600

raise_for_status(status) == 400 <= status /\ status < 600

\* stop_recording without its status check.
stop_recording_unchecked(response) == Ok(PyNone)

\* Response.json(): the parsed body, or a decode error when the body is no JSON.
ResponseJson(response) ==
    IF response.body.t = "dict" THEN Ok(response.body) ELSE Raise("JSONDecodeError")

\* What each method makes of the response to its request.
get_file_content(response) ==
    IF raise_for_status(response.status) THEN Raise("HTTPError")
    ELSE Ok([t |-> "bytes", of |-> response.body])

get_manifest(response) ==
    IF raise_for_status(response.status) THEN Raise("HTTPError")
    ELSE LET json == ResponseJson(response) IN
         IF json.kind # "ok" THEN json
         ELSE QmdlManifest_from_dict(json.value.d).out

active_recording(response) ==
    LET manifest == get_manifest(response) IN
    IF manifest.kind # "ok" THEN manifest
    ELSE Ok(PyBool(manifest.value.f["current_entry"] # PyNone))

start_recording(response) ==
    IF raise_for_status(response.status) THEN Raise("HTTPError") ELSE Ok(PyNone)

stop_recording(response) ==
    IF raise_for_status(response.status) THEN Raise("HTTPError") ELSE Ok(PyNone)

system_stats(response) ==
    IF raise_for_status(response.status) THEN Raise("HTTPError")
    ELSE LET json == ResponseJson(response) IN
         IF json.kind # "ok" THEN json
         ELSE SystemStats_from_dict(json.value.d).out

FileMethods == {"get_analysis_report_file", "get_pcap_file", "get_qmdl_file"}

Endpoint(method) ==
    CASE method = "get_analysis_report_file" -> "/api/analysis-report/"
      [] method = "get_pcap_file" -> "/api/pcap/"
      [] method = "get_qmdl_file" -> "/api/qmdl/"

Outcome(method, response) ==
    CASE method \in FileMethods -> get_file_content(response)
      [] method = "get_manifest" -> get_manifest(response)
      [] method = "active_recording" -> active_recording(response)
      [] method = "start_recording" -> start_recording(response)
      [] method = "stop_recording" -> stop_recording(response)
      [] method = "system_stats" -> system_stats(response)

-----------------------------------------------------------------------------
(* Inputs *)

\* The sequences over `items` of length n at most.
RECURSIVE SeqsUpTo(_, _)
SeqsUpTo(items, n) ==
    IF n = 0 THEN {<<>>}
    ELSE LET shorter == SeqsUpTo(items, n - 1) IN
         shorter \cup {Append(s, c) : s \in shorter, c \in items}

Without(d, k) == [x \in DOMAIN d \ {k} |-> d[x]]
With(d, k, v) == [x \in DOMAIN d \cup {k} |-> IF x = k THEN v ELSE d[x]]

SizeChars == {"0", "1", "6", ".", "M", "K"}

\* No more than n digits in a row.
DigitRunsWithin(s, n) ==
    \A i \in 1..Len(s) : \E j \in i..(i + n) : j > Len(s) \/ s[j] \notin Digits

SizeInputs ==
    {s \in SeqsUpTo(SizeChars, MaxSizeLen) : DigitRunsWithin(s, MaxDigitRun)}

GoodDisk == SystemStatsJson.d["disk_stats"].d
GoodMemory == SystemStatsJson.d["memory_stats"].d

SizeSamples ==
    {PyStr(<<"1", ".", "5", "M">>), PyStr(<<"0", ".", "6", "M">>), PyStr(<<"5", "K">>)}

PercentChars == {"0", "8", "%"}

\* The disk mapping with its percent, its sizes or its keys varied.
DiskInputs ==
    {[GoodDisk EXCEPT !["used_percent"] = PyStr(p)] :
        p \in SeqsUpTo(PercentChars, MaxPercentLen)}
    \cup {[GoodDisk EXCEPT !["total_size"] = a, !["used_size"] = b,
                           !["available_size"] = c] :
             a \in SizeSamples, b \in SizeSamples, c \in SizeSamples}
    \cup {Without(GoodDisk, k) : k \in DiskStatsFields}
    \cup {With(GoodDisk, "inodes", PyStr(<<"7">>))}

MemoryInputs ==
    {[total |-> a, used |-> b, free |-> c] :
        a \in SizeSamples, b \in SizeSamples, c \in SizeSamples}
    \cup {Without(GoodMemory, k) : k \in MemoryStatsFields}
    \cup {With(GoodMemory, "cached", PyStr(<<"1", ".", "5", "M">>))}

StatsInputs ==
    {[disk_stats |-> PyDict(d), memory_stats |-> PyDict(GoodMemory)] : d \in DiskInputs}
    \cup {[disk_stats |-> PyDict(GoodDisk), memory_stats |-> PyDict(m)] :
             m \in MemoryInputs}

\* Entry mappings: two well-formed, one with a field missing, one with a field
\* too many.
EntrySamples ==
    {EntryJson(1), EntryJson(2),
     PyDict(Without(EntryJson(1).d, "analysis_size_bytes")),
     PyDict(With(EntryJson(2).d, "comment", PyStr(<<"x">>)))}

\* Manifest mappings: the entries, then "current_entry" absent, null or an entry
\* mapping, then a key too many, or "entries" missing.
ManifestInputs ==
    LET lists == {[entries |-> PyList(e)] : e \in SeqsUpTo(EntrySamples, MaxEntries)}
        both == lists \cup {With(m, "current_entry", c) :
                               m \in lists, c \in {PyNone} \cup EntrySamples}
    IN  both \cup {With(m, "version", PyInt(1)) : m \in both}
             \cup {Without(m, "entries") : m \in both}

-----------------------------------------------------------------------------
(* States *)

NoCall == [method |-> "none", name |-> 0]
NoRequest == [verb |-> "none", path |-> "none", name |-> 0]
NoResponse == [status |-> 0, body |-> NoBody, active |-> FALSE]
NoResult ==
    [seq |-> 0, method |-> "none", response |-> NoResponse, out |-> NotCalled,
     previous |-> NotCalled]

Healthy == [mocked |-> FALSE, status |-> 200, body |-> FALSE]
Mocked(status, body) == [mocked |-> TRUE, status |-> status, body |-> body]

SizeIdle == size = <<>> /\ size_out = NotCalled

ModelsIdle ==
    /\ caller_stats = SystemStatsJson.d
    /\ caller_manifest = ManifestJson(<<>>, 0).d
    /\ calls = <<>>

ApiIdle ==
    /\ device_entries = <<>>
    /\ device_current = 0
    /\ transport = Healthy
    /\ pc = "idle"
    /\ call = NoCall
    /\ reply = NoResponse
    /\ result = NoResult
    /\ n_requests = 0
    /\ last_request = NoRequest
    /\ last_command = "none"

-----------------------------------------------------------------------------
(* The unit converter on every short string *)

SizeInit ==
    /\ size \in SizeInputs
    /\ size_out = NotCalled
    /\ ModelsIdle
    /\ ApiIdle

CallSizeStrToInt ==
    /\ size_out = NotCalled
    /\ size_out' = size_str_to_int(PyStr(size))
    /\ UNCHANGED <<size, modelVars, deviceVars, clientVars>>

SizeNext == CallSizeStrToInt

SpecSize == SizeInit /\ [][SizeNext]_vars

-----------------------------------------------------------------------------
(* The from_dict conversions on a caller's mappings *)

ModelsInit ==
    /\ \/ caller_stats \in StatsInputs /\ caller_manifest = ManifestJson(<<>>, 0).d
       \/ caller_stats = SystemStatsJson.d /\ caller_manifest \in ManifestInputs
    /\ calls = <<>>
    /\ SizeIdle
    /\ ApiIdle

Called(fn, before, left) ==
    [fn |-> fn, before |-> PyDict(before), after |-> PyDict(left.dict),
     out |-> left.out]

CallDiskStatsFromDict ==
    /\ Len(calls) < MaxCalls
    /\ "disk_stats" \in DOMAIN caller_stats
    /\ LET before == caller_stats["disk_stats"].d
           left == DiskStats_from_dict(before)
       IN  /\ caller_stats' = [caller_stats EXCEPT !["disk_stats"] = PyDict(left.dict)]
           /\ calls' = Append(calls, Called("DiskStats.from_dict", before, left))
    /\ UNCHANGED <<caller_manifest, sizeVars, deviceVars, clientVars>>

CallMemoryStatsFromDict ==
    /\ Len(calls) < MaxCalls
    /\ "memory_stats" \in DOMAIN caller_stats
    /\ LET before == caller_stats["memory_stats"].d
           left == MemoryStats_from_dict(before)
       IN  /\ caller_stats' = [caller_stats EXCEPT !["memory_stats"] = PyDict(left.dict)]
           /\ calls' = Append(calls, Called("MemoryStats.from_dict", before, left))
    /\ UNCHANGED <<caller_manifest, sizeVars, deviceVars, clientVars>>

CallSystemStatsFromDict ==
    /\ Len(calls) < MaxCalls
    /\ LET left == SystemStats_from_dict(caller_stats) IN
           /\ caller_stats' = left.dict
           /\ calls' = Append(calls, Called("SystemStats.from_dict", caller_stats, left))
    /\ UNCHANGED <<caller_manifest, sizeVars, deviceVars, clientVars>>

CallQmdlManifestFromDict ==
    /\ Len(calls) < MaxCalls
    /\ LET left == QmdlManifest_from_dict(caller_manifest) IN
           /\ caller_manifest' = left.dict
           /\ calls' = Append(calls, Called("QmdlManifest.from_dict", caller_manifest, left))
    /\ UNCHANGED <<caller_stats, sizeVars, deviceVars, clientVars>>

ModelsNext ==
    \/ CallDiskStatsFromDict
    \/ CallMemoryStatsFromDict
    \/ CallSystemStatsFromDict
    \/ CallQmdlManifestFromDict

SpecModels == ModelsInit /\ [][ModelsNext]_vars

-----------------------------------------------------------------------------
(* The client's calls against the device *)

MockedStatuses == {204, 304, 404, 500}

\* A mocked transport answers every request with its one status and either no
\* body or the body the device would send, and the device never sees the request.
Transports ==
    {Healthy} \cup {Mocked(st, body) : st \in MockedStatuses, body \in BOOLEAN}

Answer(req) ==
    LET served == Serve(req, device_entries, device_current) IN
    IF ~transport.mocked THEN served
    ELSE Served(transport.status,
                IF transport.body /\ req.verb = "GET" THEN served.body ELSE NoBody,
                device_entries, device_current, device_current)

\* requests.get / requests.post: one request goes out and is answered.
Issue(method, name, verb, path) ==
    /\ n_requests < MaxRequests
    /\ LET req == [verb |-> verb, path |-> path, name |-> name] IN
       /\ last_request' = req
       /\ reply' = [status |-> Answer(req).status, body |-> Answer(req).body,
                    active |-> Answer(req).active]
       /\ device_entries' = Answer(req).entries
       /\ device_current' = Answer(req).current
    /\ n_requests' = n_requests + 1
    /\ pc' = "waiting"
    /\ call' = [method |-> method, name |-> name]
    /\ UNCHANGED <<transport, result, last_command, sizeVars, modelVars>>

Ended(method, out) ==
    [seq |-> result.seq + 1, method |-> method, response |-> reply, out |-> out,
     previous |-> IF method = "active_recording" /\ result.method = method
                  THEN result.out ELSE NotCalled]

Call_get_manifest ==
    /\ pc = "idle"
    /\ Issue("get_manifest", 0, "GET", "/api/qmdl-manifest")

Call_get_file ==
    /\ pc = "idle"
    /\ \E method \in FileMethods, name \in 1..MaxFiles :
          Issue(method, name, "GET", Endpoint(method))

Call_start_recording ==
    /\ pc = "idle"
    /\ Cardinality(Recordings(device_entries, device_current)) < MaxRecordings
    /\ Issue("start_recording", 0, "POST", "/api/start-recording")

Call_stop_recording ==
    /\ pc = "idle"
    /\ Issue("stop_recording", 0, "POST", "/api/stop-recording")

Call_system_stats ==
    /\ pc = "idle"
    /\ Issue("system_stats", 0, "GET", "/api/system-stats")

\* active_recording answered from the last read instead of from the device.
Call_active_recording_cached ==
    IF pc = "idle" /\ result.method = "active_recording" /\ result.out.kind = "ok"
    THEN /\ n_requests < MaxRequests
         /\ result' = [result EXCEPT !.seq = result.seq + 1,
                                     !.previous = result.out]
         /\ UNCHANGED <<transport, pc, call, reply, n_requests, last_request,
                        last_command, sizeVars, modelVars, deviceVars>>
    ELSE /\ pc = "idle"
         /\ Issue("active_recording", 0, "GET", "/api/qmdl-manifest")

Call_active_recording ==
    /\ pc = "idle"
    /\ Issue("active_recording", 0, "GET", "/api/qmdl-manifest")

\* The response arrives and the method ends: it returns or raises.
Return ==
    /\ pc = "waiting"
    /\ LET out == Outcome(call.method, reply) IN
       /\ result' = Ended(call.method, out)
       /\ last_command' =
             IF call.method \in {"start_recording", "stop_recording"} /\ out.kind = "ok"
             THEN call.method ELSE last_command
    /\ pc' = "idle"
    /\ call' = NoCall
    /\ reply' = NoResponse
    /\ UNCHANGED <<transport, n_requests, last_request, sizeVars, modelVars, deviceVars>>

\* Someone else starts or stops a recording on the device.
DeviceStarts ==
    /\ Cardinality(Recordings(device_entries, device_current)) < MaxRecordings
    /\ device_entries' = Finalized(device_entries, device_current)
    /\ device_current' = NextRecording(device_entries, device_current)
    /\ UNCHANGED <<sizeVars, modelVars, clientVars>>

DeviceStops ==
    /\ device_current # 0
    /\ device_entries' = Finalized(device_entries, device_current)
    /\ device_current' = 0
    /\ UNCHANGED <<sizeVars, modelVars, clientVars>>

ApiInitWith(transports) ==
    /\ device_entries = <<>>
    /\ device_current \in {0, 1}
    /\ transport \in transports
    /\ pc = "idle"
    /\ call = NoCall
    /\ reply = NoResponse
    /\ result = NoResult
    /\ n_requests = 0
    /\ last_request = NoRequest
    /\ last_command = "none"
    /\ SizeIdle
    /\ ModelsIdle

ApiInit == ApiInitWith(Transports)

HealthyInit == ApiInitWith({Healthy})

ClientNext ==
    \/ Call_get_manifest
    \/ Call_get_file
    \/ Call_start_recording
    \/ Call_stop_recording
    \/ Call_system_stats
    \/ Call_active_recording
    \/ Return

ApiNext == ClientNext \/ DeviceStarts \/ DeviceStops

\* The client with a device that others use too, behind any transport.
SpecApi == ApiInit /\ [][ApiNext]_vars

\* The client alone with the device, the transport healthy.
SpecHealthy == HealthyInit /\ [][ClientNext]_vars

-----------------------------------------------------------------------------
(* Claims about the unit converter *)

\* s is "{d}.{f}M": digits, a point, digits, and the M.
IsMegabyteString(s) ==
    /\ Len(s) >= 4
    /\ s[Len(s)] = "M"
    /\ \E p \in 2..(Len(s) - 2) :
          \A i \in 1..(Len(s) - 1) : IF i = p THEN s[i] = "." ELSE s[i] \in Digits

PointOf(s) == CHOOSE p \in 1..Len(s) : s[p] = "."
WholeOf(s) == DecValue(SubSeq(s, 1, PointOf(s) - 1))
FracOf(s) == DecValue(SubSeq(s, PointOf(s) + 1, Len(s) - 1))
FracDen(s) == Pow10(Len(s) - 1 - PointOf(s))

\* n is the byte count of "{d}.{f}M" with its fraction cut off.
IsTruncatedBytes(n, s) ==
    LET t == n - WholeOf(s) * 1048576 IN
    /\ t * FracDen(s) <= FracOf(s) * 1048576
    /\ FracOf(s) * 1048576 < (t + 1) * FracDen(s)

\* n is the integer nearest to the byte count of "{d}.{f}M".
IsNearestBytes(n, s) ==
    LET t == n - WholeOf(s) * 1048576
        twice == 2 * FracOf(s) * 1048576
    IN  /\ 2 * t * FracDen(s) - twice <= FracDen(s)
        /\ twice - 2 * t * FracDen(s) <= FracDen(s)

\* C1, as claimed: for every "{d}.{f}M", _size_str_to_int returns the integer
\* nearest to d.f * 1048576 (round, not the fraction cut off).
C1_RoundsToNearest ==
    (size_out # NotCalled /\ IsMegabyteString(size)) =>
        /\ size_out.kind = "ok"
        /\ size_out.value.t = "int"
        /\ IsNearestBytes(size_out.value.n, size)

\* C1, amended: for every "{d}.{f}M", _size_str_to_int returns d.f * 1048576
\* with its fraction cut off: the largest integer not above the byte count.
C1_Truncates ==
    (size_out # NotCalled /\ IsMegabyteString(size)) =>
        /\ size_out.kind = "ok"
        /\ size_out.value.t = "int"
        /\ IsTruncatedBytes(size_out.value.n, size)

\* "0.6M" is 629145.6 bytes: the call returned 629145, and round gives 629146.
C1_Witness ==
    /\ size = <<"0", ".", "6", "M">>
    /\ size_out = Ok(PyInt(629145))

\* C2, as claimed: for every string that does not end in "M", the empty string
\* included, _size_str_to_int raises a ValueError carrying the suffix (the last
\* character, if there is one) and the original string, and returns no integer.
C2_BadSuffixIsValueError ==
    (size_out # NotCalled /\ (size = <<>> \/ size[Len(size)] # "M")) =>
        /\ size_out.kind = "ValueError"
        /\ size_out.original = size
        /\ size # <<>> => size_out.suffix = size[Len(size)]

-----------------------------------------------------------------------------
(* Claims about the from_dict conversions *)

CallsOf(fn) == {i \in 1..Len(calls) : calls[i].fn = fn}

IsMegabyteValue(v) == v.t = "str" /\ IsMegabyteString(v.s)

\* s is "{n}%": digits and the percent sign.
IsPercentString(s) ==
    /\ Len(s) >= 2
    /\ s[Len(s)] = "%"
    /\ AllDigits(SubSeq(s, 1, Len(s) - 1))

\* A disk mapping of the documented shape, its percent a "{n}%".
IsDiskMapping(d) ==
    /\ DOMAIN d = DiskStatsFields
    /\ \A k \in {"total_size", "used_size", "available_size"} : IsMegabyteValue(d[k])
    /\ d["used_percent"].t = "str"
    /\ IsPercentString(d["used_percent"].s)

\* C9: for every percent string "{n}%", DiskStats.from_dict yields used_percent
\* equal to the integer n, with partition and mounted_on passed through unchanged.
C9_PercentIsInteger ==
    \A i \in CallsOf("DiskStats.from_dict") :
        LET d == calls[i].before.d IN
        IsDiskMapping(d) =>
            /\ calls[i].out.kind = "ok"
            /\ calls[i].out.value.f["used_percent"] =
                   PyInt(DecValue(SubSeq(d["used_percent"].s, 1,
                                         Len(d["used_percent"].s) - 1)))
            /\ calls[i].out.value.f["partition"] = d["partition"]
            /\ calls[i].out.value.f["mounted_on"] = d["mounted_on"]

\* DiskStats.from_dict has turned "80%" into 80.
C9_Witness ==
    \E i \in CallsOf("DiskStats.from_dict") :
        /\ calls[i].before.d = [GoodDisk EXCEPT !["used_percent"] = PyStr(<<"8", "0", "%">>)]
        /\ calls[i].out.kind = "ok"
        /\ calls[i].out.value.f["used_percent"] = PyInt(80)

IsEntryMapping(x) == x.t = "dict" /\ DOMAIN x.d = QmdlManifestEntryFields

\* A manifest mapping of the documented shape, but for its "current_entry".
HasDocumentedEntries(m) ==
    /\ "entries" \in DOMAIN m
    /\ DOMAIN m \subseteq QmdlManifestFields
    /\ m["entries"].t = "list"
    /\ \A j \in 1..Len(m["entries"].items) : IsEntryMapping(m["entries"].items[j])

ReturnsCurrentEntry(c, entry) ==
    /\ c.out.kind = "ok"
    /\ c.out.value.cls = "QmdlManifest"
    /\ c.out.value.f["current_entry"] = entry

\* C4, as claimed: "current_entry" null or absent gives a manifest whose
\* current_entry is None; an entry mapping gives a QmdlManifestEntry whose five
\* fields equal the input's.
C4_NullOrAbsentIsNone ==
    \A i \in CallsOf("QmdlManifest.from_dict") :
        LET m == calls[i].before.d IN
        HasDocumentedEntries(m) =>
            /\ "current_entry" \notin DOMAIN m => ReturnsCurrentEntry(calls[i], PyNone)
            /\ ("current_entry" \in DOMAIN m /\ m["current_entry"] = PyNone)
                  => ReturnsCurrentEntry(calls[i], PyNone)
            /\ ("current_entry" \in DOMAIN m /\ IsEntryMapping(m["current_entry"]))
                  => ReturnsCurrentEntry(calls[i],
                         PyObj("QmdlManifestEntry", m["current_entry"].d))

\* C4, amended: "current_entry" null gives a manifest whose current_entry is
\* None; an entry mapping gives a QmdlManifestEntry whose five fields equal the
\* input's; "current_entry" absent raises KeyError and gives no manifest.
C4_NullIsNoneAbsentRaises ==
    \A i \in CallsOf("QmdlManifest.from_dict") :
        LET m == calls[i].before.d IN
        HasDocumentedEntries(m) =>
            /\ "current_entry" \notin DOMAIN m => calls[i].out.kind = "KeyError"
            /\ ("current_entry" \in DOMAIN m /\ m["current_entry"] = PyNone)
                  => ReturnsCurrentEntry(calls[i], PyNone)
            /\ ("current_entry" \in DOMAIN m /\ IsEntryMapping(m["current_entry"]))
                  => ReturnsCurrentEntry(calls[i],
                         PyObj("QmdlManifestEntry", m["current_entry"].d))

\* A mapping with one entry and another as its current entry has been converted.
C4_Witness ==
    \E i \in CallsOf("QmdlManifest.from_dict") :
        /\ calls[i].before.d = [entries |-> PyList(<<EntryJson(1)>>),
                                current_entry |-> EntryJson(2)]
        /\ ReturnsCurrentEntry(calls[i], PyObj("QmdlManifestEntry", EntryJson(2).d))

InItems(x, items) == \E j \in 1..Len(items) : items[j] = x

\* C5, as claimed: in every manifest from_dict produces, current_entry, when
\* present, equals no element of entries.
C5_CurrentNotInEntries ==
    \A i \in CallsOf("QmdlManifest.from_dict") :
        (calls[i].out.kind = "ok" /\ calls[i].out.value.f["current_entry"] # PyNone) =>
            ~InItems(calls[i].out.value.f["current_entry"],
                     calls[i].out.value.f["entries"].items)

\* C5, amended: from_dict keeps what it is given: the manifest's current_entry,
\* when present, equals an element of its entries exactly when the mapping's
\* "current_entry" equals an element of the mapping's "entries".
C5_DuplicateIffGiven ==
    \A i \in CallsOf("QmdlManifest.from_dict") :
        (calls[i].out.kind = "ok" /\ calls[i].out.value.f["current_entry"] # PyNone) =>
            (InItems(calls[i].out.value.f["current_entry"],
                     calls[i].out.value.f["entries"].items)
             <=> InItems(calls[i].before.d["current_entry"],
                         calls[i].before.d["entries"].items))

\* A mapping whose current entry is none of its entries has been converted, and
\* the manifest's current entry is none of the manifest's entries.
C5_Witness ==
    \E i \in CallsOf("QmdlManifest.from_dict") :
        /\ calls[i].before.d = [entries |-> PyList(<<EntryJson(1)>>),
                                current_entry |-> EntryJson(2)]
        /\ calls[i].out.kind = "ok"
        /\ calls[i].out.value.f["entries"].items # <<>>
        /\ ~InItems(calls[i].out.value.f["current_entry"],
                    calls[i].out.value.f["entries"].items)

\* C6: when a from_dict raises, the mapping passed in holds the same values as
\* before the call (and no model is returned).
C6_FailureLeavesMapping ==
    \A i \in 1..Len(calls) :
        calls[i].out.kind # "ok" => calls[i].after = calls[i].before

\* C10: a from_dict that succeeds leaves the mapping unchanged, and the same
\* conversion of the same mapping right after it succeeds with an equal model.
C10_SuccessLeavesMapping ==
    /\ \A i \in 1..Len(calls) :
          calls[i].out.kind = "ok" => calls[i].after = calls[i].before
    /\ \A i \in 1..(Len(calls) - 1) :
          (calls[i].out.kind = "ok" /\ calls[i + 1].fn = calls[i].fn)
              => calls[i + 1].out = calls[i].out

-----------------------------------------------------------------------------
(* Claims about the client *)

Is2xx(status) == 200 <= status /\ status < 300

ManifestRequest == [verb |-> "GET", path |-> "/api/qmdl-manifest", name |-> 0]

\* C7: active_recording is never cached. Every call the client has made issued
\* exactly one request, the one of an active_recording in progress is a GET of
\* /api/qmdl-manifest, and the value a read returns is whether the manifest it
\* fetched has a current_entry, which is whether the device had a recording
\* active when it served that read's request.
C7_ReadIsFresh ==
    /\ n_requests = result.seq + (IF pc = "waiting" THEN 1 ELSE 0)
    /\ (pc = "waiting" /\ call.method = "active_recording") =>
          last_request = ManifestRequest
    /\ (result.method = "active_recording" /\ result.out.kind = "ok") =>
          /\ result.out.value =
                 PyBool(result.response.body.d["current_entry"] # PyNone)
          /\ result.out.value = PyBool(result.response.active)

\* Two reads in a row returned different values, and the second no longer tells
\* what the device is doing now.
C7_Witness ==
    /\ result.method = "active_recording"
    /\ result.previous = Ok(PyBool(FALSE))
    /\ result.out = Ok(PyBool(TRUE))
    /\ device_current = 0

\* C8: with the client alone on a healthy transport, start_recording issues one
\* POST and nothing before it, succeeds and leaves one recording active (the one
\* that was active is finalized); stop_recording raises exactly when no recording
\* was active and otherwise leaves none active; and an active_recording read is
\* true iff the last command that succeeded was start_recording.
C8_StartStop ==
    /\ (pc = "waiting" /\ call.method = "start_recording") =>
          /\ last_request = [verb |-> "POST", path |-> "/api/start-recording", name |-> 0]
          /\ n_requests = result.seq + 1
    /\ (pc = "idle" /\ result.method = "start_recording") =>
          /\ result.out = Ok(PyNone)
          /\ device_current # 0
          /\ ~InItems(device_current, device_entries)
    /\ (pc = "idle" /\ result.method = "stop_recording") =>
          /\ result.out.kind # "ok" <=> ~result.response.active
          /\ result.out.kind # "ok" => result.out.kind = "HTTPError"
          /\ result.out.kind = "ok" => device_current = 0
    /\ (pc = "idle" /\ result.method = "active_recording" /\ last_command # "none") =>
          result.out = Ok(PyBool(last_command = "start_recording"))

\* start_recording while recording, a stop_recording that succeeded, and a read
\* that is false after it.
C8_Witness ==
    /\ pc = "idle"
    /\ result.method = "active_recording"
    /\ result.out = Ok(PyBool(FALSE))
    /\ last_command = "stop_recording"
    /\ device_entries = <<1, 2>>

=============================================================================
